---- MODULE Spec2Model ----
(***************************************************************************)
(* A model of bup's "save" (lib/bup/cmd/save.py): save_tree walks the      *)
(* index stream, keeps a stack of open archive directories, stores new     *)
(* content, closes directories into trees with a .bupm sidecar, and        *)
(* revalidates the index entries it stored.                                *)
(*                                                                         *)
(* Byte strings are sequences of one-character strings, compared byte by   *)
(* byte (Ord).  Object ids are positions in the object store (a store of   *)
(* distinct contents: the same content always gets the same oid); the      *)
(* shas an index entry held before the save are negative numbers.          *)
(***************************************************************************)
EXTENDS Integers, Sequences, FiniteSets, TLC

----------------------------------------------------------------------------
(* Bounds *)

\* How many units of a byte stream the splitter puts into one blob.
ChunkLen == 2

\* How many saves are run one after the other over the same index (SpecTwice).
MaxRuns == 2

----------------------------------------------------------------------------
(* Byte strings *)

Ord(c) ==
    CASE c = "-" -> 45 [] c = "." -> 46 [] c = "/" -> 47
      [] c = "a" -> 97 [] c = "b" -> 98 [] c = "c" -> 99 [] c = "d" -> 100
      [] c = "f" -> 102 [] c = "g" -> 103 [] c = "l" -> 108 [] c = "m" -> 109
      [] c = "p" -> 112 [] c = "u" -> 117 [] c = "x" -> 120 [] c = "y" -> 121
      [] c = "z" -> 122

Front(s) == SubSeq(s, 1, Len(s) - 1)

Last(s) == s[Len(s)]

IsPrefix(p, s) == Len(p) <= Len(s) /\ SubSeq(s, 1, Len(p)) = p

EndsWith(s, t) == Len(t) <= Len(s) /\ SubSeq(s, Len(s) - Len(t) + 1, Len(s)) = t

\* Python's < on bytes: the first differing byte decides, a proper prefix is less.
RECURSIVE BytesLess(_, _)
BytesLess(a, b) ==
    IF b = <<>> THEN FALSE
    ELSE IF a = <<>> THEN TRUE
    ELSE IF a[1] = b[1] THEN BytesLess(Tail(a), Tail(b))
    ELSE Ord(a[1]) < Ord(b[1])

\* Python's > on lists of bytes.
RECURSIVE ListGreater(_, _)
ListGreater(xs, ys) ==
    IF xs = <<>> THEN FALSE
    ELSE IF ys = <<>> THEN TRUE
    ELSE IF xs[1] = ys[1] THEN ListGreater(Tail(xs), Tail(ys))
    ELSE BytesLess(ys[1], xs[1])

BUP == <<".", "b", "u", "p">>
BUPL == <<".", "b", "u", "p", "l">>
BUPM == <<".", "b", "u", "p", "m">>

\* Names of the files and directories of the scenarios.
nRoot == <<>>
nA == <<"a">>
nB == <<"b">>
nC == <<"c">>
nD == <<"d">>
nF == <<"f">>
nG == <<"g">>
nY == <<"y">>
nZ == <<"z">>
nFx == <<"f", "-", "x">>
nFbup == <<"f", ".", "b", "u", "p">>

----------------------------------------------------------------------------
(* Modes, metadata, the object format *)

\* Storage modes (hashsplit.GIT_MODE_*), and the file types of st_mode:
\* "dir" is 040000, the mode _pop gives a closed subdirectory.
GitModes == {"TREE", "FILE", "SYMLINK"}

FsKinds == {"reg", "lnk", "other", "dir"}

\* metadata.Metadata(): the empty record.
EmptyMeta == [k |-> "empty", p |-> <<>>, ver |-> 0, size |-> 0]

\* None, the meta of a DirEntry that is a closed subdirectory.
NoMeta == [k |-> "none", p |-> <<>>, ver |-> 0, size |-> 0]

\* A record read for path p; ver tells the state of the file it was read from
\* (0: as it was when the index was built, 1: as changed since), size its size.
MetaRec(p, ver, size) == [k |-> "rec", p |-> p, ver |-> ver, size |-> size]

\* Metadata.encode(): the record's bytes, one unit of the sidecar stream.
Encode(m) == <<[u |-> "meta", p |-> m.p, a |-> (IF m.k = "rec" THEN m.ver + 1 ELSE 0), b |-> m.size]>>

\* The bytes of a regular file: n units.
Content(p, ver, n) == [i \in 1..n |-> [u |-> "data", p |-> p, a |-> ver, b |-> i]]

\* meta.symlink_target
SymlinkTarget(p, ver) == <<[u |-> "link", p |-> p, a |-> ver, b |-> 0]>>

RECURSIVE Concat(_)
Concat(ss) == IF ss = <<>> THEN <<>> ELSE Head(ss) \o Concat(Tail(ss))

\* git.shalist_item_sort_key((mode, name, id)): a directory sorts as name + "/".
ShalistSortKey(isdir, name) == IF isdir THEN name \o <<"/">> ELSE name

\* git.mangle_name(name, mode, gitmode): a regular file stored as a tree of chunks
\* gets ".bup"; any other name that ends in ".bup", or in ".bup" and one more byte,
\* gets ".bupl".
MangleName(name, mode, gitmode) ==
    IF mode = "reg" /\ gitmode # "FILE" THEN name \o BUP
    ELSE IF EndsWith(name, BUP) \/ (name # <<>> /\ EndsWith(Front(name), BUP))
         THEN name \o BUPL
    ELSE name

\* A stable insertion sort of records by their key field: list.sort(key=...) and
\* sorted(..., key=...), with the keys compared as bytes.
RECURSIVE InsertSorted(_, _)
InsertSorted(x, sorted) ==
    IF sorted = <<>> THEN <<x>>
    ELSE IF BytesLess(x.key, Head(sorted).key)
         THEN <<x>> \o sorted
         ELSE <<Head(sorted)>> \o InsertSorted(x, Tail(sorted))

RECURSIVE SortByKey(_)
SortByKey(seq) ==
    IF seq = <<>> THEN <<>>
    ELSE InsertSorted(Last(seq), SortByKey(Front(seq)))

\* The key of one (mode, name, oid) of a shalist in the tree's order.
TreeKey(t) == ShalistSortKey(t.mode = "TREE", t.name)

\* sorted(shalist, key=shalist_item_sort_key)
SortShalist(shalist) ==
    LET keyed == [i \in 1..Len(shalist) |-> [key |-> TreeKey(shalist[i]), ent |-> shalist[i]]]
        sorted == SortByKey(keyed)
    IN [i \in 1..Len(sorted) |-> sorted[i].ent]

\* git.tree_encode: the tree object holds the shalist sorted by shalist_item_sort_key.
TreeEncode(shalist) == [t |-> "tree", data |-> <<>>, ents |-> SortShalist(shalist)]

BlobObject(data) == [t |-> "blob", data |-> data, ents |-> <<>>]

----------------------------------------------------------------------------
(* The object writer: a store of distinct objects, the oid of an object is   *)
(* its place in the store.                                                   *)

HasObject(st, obj) == \E i \in 1..Len(st) : st[i] = obj

\* The store after writing obj (PackWriter.new_blob / new_tree).
Put(st, obj) == IF HasObject(st, obj) THEN st ELSE Append(st, obj)

OidOf(st, obj) == CHOOSE i \in 1..Len(st) : st[i] = obj

\* The chunks the splitter cuts a stream into: ChunkLen units each.
RECURSIVE Chunks(_)
Chunks(data) ==
    IF Len(data) <= ChunkLen THEN <<data>>
    ELSE <<SubSeq(data, 1, ChunkLen)>> \o Chunks(SubSeq(data, ChunkLen + 1, Len(data)))

RECURSIVE PutBlobs(_, _)
PutBlobs(st, chunks) ==
    IF chunks = <<>> THEN st ELSE PutBlobs(Put(st, BlobObject(Head(chunks))), Tail(chunks))

\* PackWriter.new_blob / new_tree: the store after the write, and the oid.
WriteObject(st, obj) == [store |-> Put(st, obj), oid |-> OidOf(Put(st, obj), obj)]

\* The tree over the chunks' blobs, which st holds.
ChunkTree(st, chunks) ==
    TreeEncode([i \in 1..Len(chunks) |->
                  [mode |-> "FILE", name |-> [j \in 1..i |-> "a"],
                   oid |-> OidOf(st, BlobObject(chunks[i]))]])

SplitResult(mode, w, chunks) == [mode |-> mode, oid |-> w.oid, store |-> w.store, blobs |-> chunks]

SplitChunks(st1, chunks) ==
    IF Len(chunks) = 1
    THEN SplitResult("FILE", [store |-> st1, oid |-> OidOf(st1, BlobObject(chunks[1]))], chunks)
    ELSE SplitResult("TREE", WriteObject(st1, ChunkTree(st1, chunks)), chunks)

SplitStream(st, chunks) == SplitChunks(PutBlobs(st, chunks), chunks)

\* hashsplit.split_to_blob_or_tree(new_blob, new_tree, [stream]): one blob when the
\* stream is one chunk (an empty stream is one empty blob), else a tree of the
\* chunks' blobs.  The result: the mode, the oid, the store, the blobs written.
SplitToBlobOrTree(st, data) == SplitStream(st, Chunks(data))

----------------------------------------------------------------------------
(* Paths and the path mapper *)

\* A filesystem path is the sequence of its component names; "/" is <<>>.
\* The bytes of an index entry's name: a directory's name ends in "/".
RECURSIVE JoinPath(_)
JoinPath(comps) ==
    IF comps = <<>> THEN <<>> ELSE <<"/">> \o Head(comps) \o JoinPath(Tail(comps))

EntName(e) ==
    IF e.path = <<>> THEN <<"/">>
    ELSE JoinPath(e.path) \o (IF e.isdir THEN <<"/">> ELSE <<>>)

\* os.path.split(ent.name): the directory part (as components) and the file part,
\* which is empty for a directory entry.
SplitDir(e) == IF e.isdir THEN e.path ELSE Front(e.path)

SplitFile(e) == IF e.isdir THEN <<>> ELSE Last(e.path)

\* fs_path of an archive component: a real path, or None.
SomePath(p) == [some |-> TRUE, p |-> p]

NoPath == [some |-> FALSE, p |-> <<>>]

\* helpers.path_components(dir): ('', '/') and then every component with the real
\* path that leads to it.
PathComponents(dir) ==
    <<[name |-> nRoot, fs |-> SomePath(<<>>)]>>
      \o [i \in 1..Len(dir) |-> [name |-> dir[i], fs |-> SomePath(SubSeq(dir, 1, i))]]

\* The prefixes of a list that are prefixes of dir, "/" left out.
Matching(prefixes, dir) ==
    {i \in 1..Len(prefixes) : prefixes[i] # <<>> /\ IsPrefix(prefixes[i], dir)}

\* helpers.stripped_path_components(dir, prefixes): the longest prefix that matches
\* is stripped; the root component stands for the prefix itself.
StrippedPathComponents(dir, prefixes) ==
    LET m == Matching(prefixes, dir)
    IN IF m = {} THEN PathComponents(dir)
       ELSE LET i == CHOOSE j \in m : \A k \in m : Len(prefixes[k]) <= Len(prefixes[j])
                bp == prefixes[i]
            IN <<[name |-> nRoot, fs |-> SomePath(bp)]>>
                 \o [k \in 1..(Len(dir) - Len(bp)) |->
                       [name |-> dir[Len(bp) + k], fs |-> SomePath(SubSeq(dir, 1, Len(bp) + k))]]

\* helpers.grafted_path_components(grafts, dir): for the first graft whose old
\* prefix matches, the components of the new prefix, which have no path of their
\* own, and then the rest of dir.
GraftedPathComponents(grafts, dir) ==
    LET m == {i \in 1..Len(grafts) : IsPrefix(grafts[i].old, dir)}
    IN IF m = {} THEN PathComponents(dir)
       ELSE LET g == grafts[CHOOSE j \in m : \A k \in m : j <= k]
            IN <<[name |-> nRoot, fs |-> NoPath]>>
                 \o [k \in 1..Len(g.new) |-> [name |-> g.new[k], fs |-> NoPath]]
                 \o [k \in 1..(Len(dir) - Len(g.old)) |->
                       [name |-> dir[Len(g.old) + k],
                        fs |-> SomePath(SubSeq(dir, 1, Len(g.old) + k))]]

\* save_tree, lines 314-322: the archive path of an entry's directory.
MapPath(o, dir) ==
    IF o.strip THEN StrippedPathComponents(dir, o.sources)
    ELSE IF o.strip_path # <<>> THEN StrippedPathComponents(dir, <<o.strip_path>>)
    ELSE IF o.grafts # <<>> THEN GraftedPathComponents(o.grafts, dir)
    ELSE PathComponents(dir)

Names(frames) == [i \in 1..Len(frames) |-> frames[i].name]

----------------------------------------------------------------------------
(* The inputs: command lines, index listings, entry states *)

\* What the index and the filesystem can hold for a file when the save reaches it.
\*   exists, valid, instore: IX_EXISTS, IX_HASHVALID, whether the repository has sha
\*   kind, gitmode: the type bits of ent.mode, ent.gitmode
\*   stat, fskind: whether metadata.from_path succeeds, and the type it sees
\*   rd, n: whether open and read succeed, and the units read
\*   sn: the size the stat before the read reports
\*   ver: 0 when the file is as the index recorded it, 1 when it changed since
FileProfile(name) ==
    LET base == [exists |-> TRUE, valid |-> FALSE, instore |-> FALSE, kind |-> "reg",
                 gitmode |-> "FILE", stat |-> TRUE, fskind |-> "reg", rd |-> TRUE,
                 n |-> 1, sn |-> 1, ver |-> 0]
    IN CASE name = "del" -> [base EXCEPT !.exists = FALSE]
         [] name = "hv" -> [base EXCEPT !.valid = TRUE, !.instore = TRUE]
         [] name = "hvtree" -> [base EXCEPT !.valid = TRUE, !.instore = TRUE, !.gitmode = "TREE"]
         [] name = "stale" -> [base EXCEPT !.valid = TRUE]
         [] name = "new" -> base
         [] name = "newch" -> [base EXCEPT !.n = ChunkLen + 1, !.sn = ChunkLen + 1]
         [] name = "grown" -> [base EXCEPT !.n = ChunkLen + 1]
         [] name = "shrunk" -> [base EXCEPT !.sn = ChunkLen + 1]
         [] name = "newmod" -> [base EXCEPT !.ver = 1]
         [] name = "statfail" -> [base EXCEPT !.stat = FALSE]
         [] name = "drift" -> [base EXCEPT !.fskind = "other"]
         [] name = "readfail" -> [base EXCEPT !.rd = FALSE]
         [] name = "lnk" -> [base EXCEPT !.kind = "lnk", !.fskind = "lnk", !.gitmode = "SYMLINK"]
         [] name = "other" -> [base EXCEPT !.kind = "other", !.fskind = "other"]

\* The states of a directory's index entry.
DirProfile(name) ==
    LET base == [exists |-> TRUE, valid |-> FALSE, instore |-> FALSE, shamissing |-> FALSE]
    IN CASE name = "ddel" -> [base EXCEPT !.exists = FALSE]
         [] name = "dnew" -> base
         [] name = "dstale" -> [base EXCEPT !.valid = TRUE]
         [] name = "dhv" -> [base EXCEPT !.valid = TRUE, !.instore = TRUE]
         [] name = "dhvmiss" -> [base EXCEPT !.valid = TRUE, !.instore = TRUE, !.shamissing = TRUE]

File(path, profs, bigs) == [path |-> path, isdir |-> FALSE, profs |-> profs, bigs |-> bigs]

Dir(path, profs, bigs) == [path |-> path, isdir |-> TRUE, profs |-> profs, bigs |-> bigs]

\* What main reads of the command line: -n, -c, -t, -r.
Cmd(name, commit, tree_, remote) ==
    [name |-> name, commit |-> commit, tree |-> tree_, remote |-> remote]

Opt(strip, strip_path, grafts, sources) ==
    [strip |-> strip, strip_path |-> strip_path, grafts |-> grafts, sources |-> sources]

AllFile == {"del", "hv", "hvtree", "stale", "new", "newch", "newmod", "statfail", "drift",
            "readfail", "lnk", "other"}

\* The command lines and index listings tried.  An index lists its entries in
\* descending order of their names, so a directory comes after its contents
\* and the sources come in descending order too (index.Reader.filter).
Scenarios == <<
    \* bup save -n x /           names that meet the mangling rules
    [cmd |-> Cmd(TRUE, FALSE, FALSE, FALSE),
     opt |-> Opt(FALSE, <<>>, <<>>, <<nRoot>>), smallers |-> {FALSE}, badstats |-> {},
     entries |-> << File(<<nA, nFbup>>, {"new", "del"}, {FALSE}),
                    File(<<nA, nFx>>, {"new", "hv"}, {FALSE}),
                    File(<<nA, nF>>, {"new", "newch", "hvtree", "lnk"}, {FALSE}),
                    File(<<nA, BUPM>>, {"new", "del"}, {FALSE}),
                    Dir(<<nA>>, {"dnew"}, {FALSE}),
                    Dir(<<>>, {"dnew"}, {FALSE}) >>],
    \* bup save -t [--smaller N] /        every kind of entry, nested directories
    [cmd |-> Cmd(FALSE, FALSE, TRUE, FALSE),
     opt |-> Opt(FALSE, <<>>, <<>>, <<nRoot>>), smallers |-> {FALSE, TRUE}, badstats |-> {<<nA, nC>>},
     entries |-> << File(<<nA, nF>>, {"new", "newmod", "hv", "statfail"}, {FALSE, TRUE}),
                    File(<<nA, nC, nG>>, AllFile, {FALSE, TRUE}),
                    Dir(<<nA, nC>>, {"dnew", "dstale", "dhv", "dhvmiss"}, {FALSE, TRUE}),
                    Dir(<<nA, nB>>, {"ddel", "dnew"}, {FALSE}),
                    Dir(<<nA>>, {"dnew", "dhvmiss"}, {FALSE}),
                    Dir(<<>>, {"dnew"}, {FALSE}) >>],
    \* bup save -c --strip /z /y          two sources merged into the root
    [cmd |-> Cmd(FALSE, TRUE, FALSE, FALSE),
     opt |-> Opt(TRUE, <<>>, <<>>, <<<<nZ>>, <<nY>>>>), smallers |-> {FALSE}, badstats |-> {<<nZ>>},
     entries |-> << File(<<nZ, nF>>, {"new", "hv", "statfail"}, {FALSE}),
                    File(<<nZ, nC, nG>>, {"new", "del"}, {FALSE}),
                    Dir(<<nZ, nC>>, {"dnew", "dhv"}, {FALSE}),
                    Dir(<<nZ>>, {"dnew"}, {FALSE}),
                    File(<<nY, nF>>, {"new", "hv", "del"}, {FALSE}),
                    File(<<nY, nC, nG>>, {"new"}, {FALSE}),
                    Dir(<<nY, nC>>, {"dnew"}, {FALSE}),
                    Dir(<<nY>>, {"dnew"}, {FALSE}) >>],
    \* bup save -r host: -n x --strip /z             one source
    [cmd |-> Cmd(TRUE, FALSE, FALSE, TRUE),
     opt |-> Opt(TRUE, <<>>, <<>>, <<<<nZ>>>>), smallers |-> {FALSE, TRUE}, badstats |-> {<<nZ, nC>>},
     entries |-> << File(<<nZ, nF>>, {"new", "hv", "del"}, {FALSE, TRUE}),
                    File(<<nZ, nC, nG>>, {"new", "del"}, {FALSE}),
                    Dir(<<nZ, nC>>, {"dnew", "dhv", "ddel"}, {FALSE}),
                    Dir(<<nZ>>, {"dnew", "ddel"}, {FALSE, TRUE}) >>],
    \* bup save -tc -n x --strip-path /z /z/a/b /c/d
    [cmd |-> Cmd(TRUE, TRUE, TRUE, FALSE),
     opt |-> Opt(FALSE, <<nZ>>, <<>>, <<<<nZ, nA, nB>>, <<nC, nD>>>>), smallers |-> {FALSE}, badstats |-> {},
     entries |-> << File(<<nZ, nA, nB, nF>>, {"new", "hv"}, {FALSE}),
                    Dir(<<nZ, nA, nB>>, {"dnew", "dhv"}, {FALSE}),
                    File(<<nC, nD, nG>>, {"new", "statfail"}, {FALSE}),
                    Dir(<<nC, nD>>, {"dnew"}, {FALSE}) >>],
    \* bup save -n x --graft /z=/a --graft /y=/a /z /y
    [cmd |-> Cmd(TRUE, FALSE, FALSE, FALSE),
     opt |-> Opt(FALSE, <<>>, <<[old |-> <<nZ>>, new |-> <<nA>>], [old |-> <<nY>>, new |-> <<nA>>]>>,
                 <<<<nZ>>, <<nY>>>>), smallers |-> {FALSE}, badstats |-> {},
     entries |-> << File(<<nZ, nF>>, {"new", "hv"}, {FALSE}),
                    Dir(<<nZ>>, {"dnew"}, {FALSE}),
                    File(<<nY, nF>>, {"new", "newch", "grown", "shrunk"}, {FALSE}),
                    File(<<nY, nC, nG>>, {"new", "readfail"}, {FALSE}),
                    Dir(<<nY, nC>>, {"dnew"}, {FALSE}),
                    Dir(<<nY>>, {"dnew"}, {FALSE}) >>],
    \* bup save -r host: -t /z/a/b /c/d
    [cmd |-> Cmd(FALSE, FALSE, TRUE, TRUE),
     opt |-> Opt(FALSE, <<>>, <<>>, <<<<nZ, nA, nB>>, <<nC, nD>>>>), smallers |-> {FALSE}, badstats |-> {<<nC, nD>>},
     entries |-> << File(<<nZ, nA, nB, nF>>, {"new", "hv", "drift"}, {FALSE}),
                    Dir(<<nZ, nA, nB>>, {"dnew", "dhv"}, {FALSE}),
                    File(<<nC, nD, nG>>, {"new", "other"}, {FALSE}),
                    Dir(<<nC, nD>>, {"dnew"}, {FALSE}) >> ]
  >>

----------------------------------------------------------------------------
(* The state *)

VARIABLES
    scn,            \* which command line and index listing (Scenarios) is saved
    smaller,        \* opt.smaller: whether a size limit is set
    index,          \* the index entries: flags, sha, gitmode, size against the limit
    files,          \* the filesystem, for the path of each file of the index
    dirstat,        \* the filesystem, for each directory: whether stat succeeds
    run,            \* the number of this save
    pc,             \* where save_tree is
    pos,            \* the place of the index reader in the listing
    cur,            \* the entry of this turn of the loop (ent)
    dirp,           \* the archive path of the entry's directory
    stack,          \* the open archive directories
    lastskip_name,  \* <<>> for None
    first_root,
    root_collision,
    store,          \* the objects the writer holds
    saved_errors,   \* how many errors add_error recorded
    tree,           \* what save_tree returned (0: nothing yet)
    prevtree,       \* what the save before this one returned
    lastpop,        \* the last call of _pop: what it was given and what it wrote
    ops,            \* for each entry, what this save did for it
    seen,           \* the first components that reached path mapping, the
                    \* directories whose stat failed on a push
    ref,            \* the branch reference: a commit of commits, or NoCommit
    commits,        \* the commit objects of the repository
    main,           \* for each process running bup save: where main is, its locals
    lastmove        \* the last change of the reference: who, from what, to what

loopvars == <<scn, smaller, index, files, dirstat, run, pc, pos, cur, dirp, stack,
              lastskip_name, first_root, root_collision, store, saved_errors, tree,
              prevtree, lastpop, ops, seen>>

mainvars == <<ref, commits, main, lastmove>>

vars == <<loopvars, mainvars>>

Entries == Scenarios[scn].entries

NumEntries == Len(Entries)

opt == Scenarios[scn].opt

ent == Entries[cur]

\* A file's index entry before the reader has yielded it.
Unread ==
    [read |-> FALSE, exists |-> FALSE, valid |-> FALSE, sha |-> 0, gitmode |-> "FILE",
     kind |-> "reg", instore |-> FALSE, shamissing |-> FALSE, big |-> FALSE]

UnreadFile == [stat |-> FALSE, fskind |-> "reg", rd |-> FALSE, n |-> 0, sn |-> 0, ver |-> 0]

\* The index entry of file i in state pn; the sha it held before the save is -i.
FileEntry(i, pn, big) ==
    LET f == FileProfile(pn)
    IN [read |-> TRUE, exists |-> f.exists, valid |-> f.valid, sha |-> -i,
        gitmode |-> f.gitmode, kind |-> f.kind, instore |-> f.instore,
        shamissing |-> FALSE, big |-> big]

FileFacts(pn) ==
    LET f == FileProfile(pn)
    IN [stat |-> f.stat, fskind |-> f.fskind, rd |-> f.rd, n |-> f.n, sn |-> f.sn,
        ver |-> f.ver]

DirEntryOf(i, pn, big) ==
    LET d == DirProfile(pn)
    IN [read |-> TRUE, exists |-> d.exists, valid |-> d.valid, sha |-> -i,
        gitmode |-> "TREE", kind |-> "dir", instore |-> d.instore,
        shamissing |-> d.shamissing, big |-> big]

NoOps ==
    [top |-> Unread, disp |-> "", validates |-> 0, invalidates |-> 0, repacks |-> 0, stats |-> 0,
     reads |-> 0, blobs |-> 0, appended |-> <<>>]

NoPop ==
    [calls |-> 0, built |-> FALSE, name |-> <<>>, items |-> <<>>, clean |-> <<>>,
     metalist |-> <<>>, sidemode |-> "FILE", sideoid |-> 0, sidedata |-> <<>>,
     shalist |-> <<>>, tree |-> 0, framemeta |-> NoMeta, overridden |-> FALSE,
     errors |-> 0]

\* Every directory a frame can be pushed for.
DirPaths(entries) ==
    UNION {{SubSeq(entries[i].path, 1, k) : k \in 0..Len(entries[i].path)} :
             i \in 1..Len(entries)}

NoRoot == [name |-> <<"-">>, fs |-> NoPath]

\* The processes that can run bup save over the repository.
Procs == {1, 2}

\* None as a commit oid: no parent, no reference.
NoCommit == 0

\* main when it has parsed its command line: nothing connected, no writer.
\*   wopen, closed: the pack writer is open; it was closed at the end of its block
\*   status: the exit status, -1 while main runs
\*   raised: "" or, when an exception or sys.exit left main, whether the writer's
\*           block had been left before ("closed") or not ("open")
\*   updates: how many times this run moved the reference
MainStart(cmd) ==
    [pc |-> "start", cmd |-> cmd, wopen |-> FALSE, closed |-> FALSE, parent |-> NoCommit,
     tree |-> 0, commit |-> NoCommit, errors |-> 0, status |-> -1, raised |-> "",
     updates |-> 0]

\* A process that does not run.
MainOff == [MainStart(Cmd(FALSE, FALSE, TRUE, FALSE)) EXCEPT !.pc = "off"]

NoMove == [by |-> 0, from |-> NoCommit, to |-> NoCommit, expected |-> NoCommit, wopen |-> FALSE]

\* The index, the filesystem and save_tree's locals before main calls it.
LoopInit ==
    /\ scn \in 1..Len(Scenarios)
    /\ smaller \in Scenarios[scn].smallers
    /\ \E dp \in [{i \in 1..Len(Scenarios[scn].entries) : Scenarios[scn].entries[i].isdir}
                    -> [pn : {"ddel", "dnew", "dstale", "dhv", "dhvmiss"}, big : BOOLEAN]] :
         /\ \A i \in DOMAIN dp :
              /\ dp[i].pn \in Scenarios[scn].entries[i].profs
              /\ dp[i].big \in (IF smaller THEN Scenarios[scn].entries[i].bigs ELSE {FALSE})
              /\ \A j \in DOMAIN dp :
                    (dp[j].pn = "ddel" /\ IsPrefix(Scenarios[scn].entries[j].path,
                                                   Scenarios[scn].entries[i].path))
                       => dp[i].pn = "ddel"
         /\ index = [i \in 1..Len(Scenarios[scn].entries) |->
                       IF i \in DOMAIN dp THEN DirEntryOf(i, dp[i].pn, dp[i].big) ELSE Unread]
    /\ files = [i \in 1..Len(Scenarios[scn].entries) |-> UnreadFile]
    /\ dirstat \in [DirPaths(Scenarios[scn].entries) -> {"ok", "fail"}]
    /\ \A p \in DOMAIN dirstat : dirstat[p] = "fail" => p \in Scenarios[scn].badstats
    /\ run = 1
    /\ pc = "idle"
    /\ pos = 1
    /\ cur = 0
    /\ dirp = <<>>
    /\ stack = <<>>
    /\ lastskip_name = <<>>
    /\ first_root = NoRoot
    /\ root_collision = FALSE
    /\ store = <<>>
    /\ saved_errors = 0
    /\ tree = 0
    /\ prevtree = 0
    /\ lastpop = NoPop
    /\ ops = [i \in 1..Len(Scenarios[scn].entries) |-> NoOps]
    /\ seen = [roots |-> {}, dirfails |-> {}]

\* One process starts main; the branch does not exist yet.
Init ==
    /\ LoopInit
    /\ ref = NoCommit
    /\ commits = <<>>
    /\ main = [p \in Procs |-> IF p = 1 THEN MainStart(Scenarios[scn].cmd) ELSE MainOff]
    /\ lastmove = NoMove

----------------------------------------------------------------------------
(* The writer's view of an entry *)

\* PackWriter.exists(oid): an object of this save, or one the repository held.
WriterExists(oid) ==
    \/ oid > 0 /\ oid <= Len(store)
    \/ oid < 0 /\ index[-oid].instore

\* An already_saved that does not ask the writer.
ValidOnly(i) == IF index[i].valid THEN index[i].sha ELSE 0

\* An already_saved that finds nothing saved.
NeverSaved(i) == 0

\* already_saved(ent): ent.sha when the entry is valid and the writer has it, else 0.
AlreadySaved(i) == IF index[i].valid /\ WriterExists(index[i].sha) THEN index[i].sha ELSE 0

\* wantrecurse_during(ent)
WantRecurseDuring(i) == AlreadySaved(i) = 0 \/ index[i].shamissing

\* index.Reader.filter: an entry is yielded unless a directory above it (the index's
\* root apart, which is never asked) is not recursed into.
Visible(i) ==
    \A j \in 1..NumEntries :
        (/\ j # i
         /\ Entries[j].isdir
         /\ Entries[j].path # <<>>
         /\ IsPrefix(Entries[j].path, Entries[i].path)) => WantRecurseDuring(j)

----------------------------------------------------------------------------
(* _push and _pop *)

Frame(name, meta) == [name |-> name, meta |-> meta, items |-> <<>>]

DirEntry(name, mode, gitmode, oid, meta) ==
    [name |-> name, mode |-> mode, gitmode |-> gitmode, oid |-> oid, meta |-> meta]

\* StackDir.append on the top frame.
AppendToTop(stk, de) == [stk EXCEPT ![Len(stk)].items = Append(@, de)]

\* _pop without lines 149-159: every item is kept.
KeepAll(items) == items

\* _pop keeping the last item of every name instead of the first.
RECURSIVE LastOfEachName(_)
LastOfEachName(items) ==
    IF items = <<>> THEN <<>>
    ELSE IF \E k \in 2..Len(items) : items[k].name = Head(items).name
         THEN LastOfEachName(Tail(items))
         ELSE <<Head(items)>> \o LastOfEachName(Tail(items))

\* _pop, lines 149-159: the first item of every name, in the order they were added.
RECURSIVE FirstOfEachName(_, _)
FirstOfEachName(items, names_seen) ==
    IF items = <<>> THEN <<>>
    ELSE IF Head(items).name \in names_seen
         THEN FirstOfEachName(Tail(items), names_seen)
         ELSE <<Head(items)>> \o FirstOfEachName(Tail(items), names_seen \cup {Head(items).name})

CleanList(items) == FirstOfEachName(items, {})

IsNotTree(de) == de.mode # "dir"

\* _pop, lines 164-168: the directory's own record with the key b'', then the records
\* of the items that are no subdirectories, sorted by the key of (mode, name).
UnsortedMetalist(dir_metadata, clean) ==
    LET files_ == SelectSeq(clean, IsNotTree)
    IN <<[key |-> <<>>, meta |-> dir_metadata]>>
         \o [i \in 1..Len(files_) |->
               [key |-> ShalistSortKey(files_[i].mode = "dir", files_[i].name),
                meta |-> files_[i].meta]]

Metalist(dir_metadata, clean) == SortByKey(UnsortedMetalist(dir_metadata, clean))

\* _pop, line 169: the bytes of the sidecar.
SidecarBytes(metalist) == Concat([i \in 1..Len(metalist) |-> Encode(metalist[i].meta)])

\* The list of lines 173-177 with .bupm put after the items.
ShalistSidecarLast(mode, id, clean) ==
    [i \in 1..Len(clean) |->
        [mode |-> clean[i].gitmode,
         name |-> MangleName(clean[i].name, clean[i].mode, clean[i].gitmode),
         oid |-> clean[i].oid]]
      \o <<[mode |-> mode, name |-> BUPM, oid |-> id]>>

\* _pop, lines 173-177: .bupm first, then the items under their mangled names.
Shalist(mode, id, clean) ==
    <<[mode |-> mode, name |-> BUPM, oid |-> id]>>
      \o [i \in 1..Len(clean) |->
            [mode |-> clean[i].gitmode,
             name |-> MangleName(clean[i].name, clean[i].mode, clean[i].gitmode),
             oid |-> clean[i].oid]]

NoOverride == [set |-> FALSE, meta |-> NoMeta]

Override(m) == [set |-> TRUE, meta |-> m]

\* _pop, lines 180-182: the tree goes into the frame below, if there is one.
AddToParent(rest, name, tr) ==
    IF rest # <<>> THEN AppendToTop(rest, DirEntry(name, "dir", "TREE", tr, NoMeta)) ELSE rest

\* _pop, line 179 and after: the tree is written.
PopWritten(stk, overridden, clean, metalist, data, sp, shalist, w) ==
    [stack |-> AddToParent(Front(stk), Last(stk).name, w.oid),
     store |-> w.store,
     tree |-> w.oid,
     errors |-> Len(Last(stk).items) - Len(clean),
     log |-> [calls |-> 1, built |-> TRUE, name |-> Last(stk).name, items |-> Last(stk).items,
              clean |-> clean, metalist |-> metalist, sidemode |-> sp.mode,
              sideoid |-> sp.oid, sidedata |-> data, shalist |-> shalist,
              tree |-> w.oid, framemeta |-> Last(stk).meta, overridden |-> overridden,
              errors |-> Len(Last(stk).items) - Len(clean)]]

\* _pop, lines 173-179
PopShalist(stk, overridden, clean, metalist, data, sp, shalist) ==
    PopWritten(stk, overridden, clean, metalist, data, sp, shalist,
               WriteObject(sp.store, TreeEncode(shalist)))

\* _pop, lines 170-172
PopSplit(stk, overridden, clean, metalist, data, sp) ==
    PopShalist(stk, overridden, clean, metalist, data, sp, Shalist(sp.mode, sp.oid, clean))

\* _pop, line 169
PopSidecar(stk, st, overridden, clean, metalist, data) ==
    PopSplit(stk, overridden, clean, metalist, data, SplitToBlobOrTree(st, data))

\* _pop, lines 161-168
PopMetalist(stk, st, overridden, clean, metalist) ==
    PopSidecar(stk, st, overridden, clean, metalist, SidecarBytes(metalist))

PopClean(stk, st, dir_metadata, clean) ==
    PopMetalist(stk, st, dir_metadata.set, clean,
                Metalist(IF dir_metadata.set THEN dir_metadata.meta ELSE Last(stk).meta, clean))

\* A _pop that builds the tree although force_tree is given.
PopRebuilt(stk, st, force_tree) == PopClean(stk, st, NoOverride, CleanList(Last(stk).items))

\* _pop, lines 146-147: force_tree is the tree, nothing is written.
PopForced(stk, st, force_tree) ==
    [stack |-> AddToParent(Front(stk), Last(stk).name, force_tree),
     store |-> st,
     tree |-> force_tree,
     errors |-> 0,
     log |-> [NoPop EXCEPT !.calls = 1, !.name = Last(stk).name, !.items = Last(stk).items,
                           !.tree = force_tree, !.framemeta = Last(stk).meta]]

\* _pop(force_tree, dir_metadata) on a stack that is not empty: the stack and the
\* store after it, the tree it returns, the errors it adds, and what it did.
Pop(stk, st, force_tree, dir_metadata) ==
    IF force_tree # 0
    THEN PopForced(stk, st, force_tree)
    ELSE PopClean(stk, st, dir_metadata, CleanList(Last(stk).items))

----------------------------------------------------------------------------
(* The loop of save_tree *)

\* Whether a directory above entry i is deleted: then the index holds i as deleted.
InDeletedDir(i) ==
    \E j \in 1..NumEntries :
        /\ Entries[j].isdir
        /\ j # i
        /\ IsPrefix(Entries[j].path, Entries[i].path)
        /\ ~index[j].exists

\* The index reader yields the next entry; what the index and the filesystem
\* hold for a file is drawn when the reader first reaches it.
Yields(i) ==
    IF index[i].read
    THEN {[e |-> index[i], f |-> files[i]]}
    ELSE {[e |-> FileEntry(i, pn, big), f |-> FileFacts(pn)] :
            pn \in {q \in Entries[i].profs : InDeletedDir(i) => q = "del"},
            big \in (IF smaller THEN Entries[i].bigs ELSE {FALSE})}

IterNext ==
    /\ pc = "iter"
    /\ pos <= NumEntries
    /\ Visible(pos)
    /\ cur' = pos
    /\ pos' = pos + 1
    /\ pc' = "top"
    /\ \E y \in Yields(pos) :
         /\ index' = [index EXCEPT ![pos] = y.e]
         /\ files' = [files EXCEPT ![pos] = y.f]
         /\ ops' = [ops EXCEPT ![pos].top = y.e]
    /\ UNCHANGED <<scn, smaller, dirstat, run, dirp, stack, lastskip_name, first_root,
                   root_collision, store, saved_errors, tree, prevtree, lastpop, seen>>
    /\ UNCHANGED mainvars

\* The reader passes over an entry below a directory it does not recurse into.
IterSkip ==
    /\ pc = "iter"
    /\ pos <= NumEntries
    /\ ~Visible(pos)
    /\ pos' = pos + 1
    /\ UNCHANGED <<scn, smaller, index, files, dirstat, run, pc, cur, dirp, stack,
                   lastskip_name, first_root, root_collision, store, saved_errors, tree,
                   prevtree, lastpop, ops, seen>>
    /\ UNCHANGED mainvars

IterEnd ==
    /\ pc = "iter"
    /\ pos > NumEntries
    /\ pc' = "finish"
    /\ UNCHANGED <<scn, smaller, index, files, dirstat, run, pos, cur, dirp, stack,
                   lastskip_name, first_root, root_collision, store, saved_errors, tree,
                   prevtree, lastpop, ops, seen>>
    /\ UNCHANGED mainvars

\* A deleted entry taken for a skipped one: its name becomes lastskip_name.
NotExistsAsSkip ==
    /\ pc = "top"
    /\ ~index[cur].exists
    /\ pc' = "iter"
    /\ lastskip_name' = EntName(ent)
    /\ ops' = [ops EXCEPT ![cur].disp = "deleted"]
    /\ UNCHANGED <<scn, smaller, index, files, dirstat, run, pos, cur, dirp, stack,
                   first_root, root_collision, store, saved_errors, tree,
                   prevtree, lastpop, seen>>
    /\ UNCHANGED mainvars

\* lines 305-306
NotExists ==
    /\ pc = "top"
    /\ ~index[cur].exists
    /\ pc' = "iter"
    /\ ops' = [ops EXCEPT ![cur].disp = "deleted"]
    /\ UNCHANGED <<scn, smaller, index, files, dirstat, run, pos, cur, dirp, stack,
                   lastskip_name, first_root, root_collision, store, saved_errors, tree,
                   prevtree, lastpop, seen>>
    /\ UNCHANGED mainvars

\* The size test taken only when the entry is not hashvalid.
LargeAndNotSaved(i) == smaller /\ index[i].big /\ AlreadySaved(i) = 0

\* line 307: opt.smaller and ent.size >= opt.smaller
TooLarge(i) == smaller /\ index[i].big

\* lines 307-312
SizeFilter ==
    /\ pc = "top"
    /\ index[cur].exists
    /\ TooLarge(cur)
    /\ lastskip_name' = IF AlreadySaved(cur) = 0 THEN EntName(ent) ELSE lastskip_name
    /\ pc' = "iter"
    /\ ops' = [ops EXCEPT ![cur].disp = "sizeskip"]
    /\ UNCHANGED <<scn, smaller, index, files, dirstat, run, pos, cur, dirp, stack,
                   first_root, root_collision, store, saved_errors, tree, prevtree,
                   lastpop, seen>>
    /\ UNCHANGED mainvars

\* The comparison of line 340 made on the names alone.
NamesDiffer(a, b) == a.name # b.name

\* line 340: first_root != dirp[0]
RootsDiffer(a, b) == a # b

\* lines 314-341
MapEntry ==
    /\ pc = "top"
    /\ index[cur].exists
    /\ ~TooLarge(cur)
    /\ LET d == MapPath(opt, SplitDir(ent))
       IN /\ dirp' = d
          /\ IF first_root = NoRoot
             THEN first_root' = d[1] /\ UNCHANGED root_collision
             ELSE /\ root_collision' = (root_collision \/ RootsDiffer(first_root, d[1]))
                  /\ UNCHANGED first_root
          /\ seen' = [seen EXCEPT !.roots = @ \cup {d[1]}]
    /\ pc' = "ascend"
    /\ UNCHANGED <<scn, smaller, index, files, dirstat, run, pos, cur, stack,
                   lastskip_name, store, saved_errors, tree, prevtree, lastpop, ops>>
    /\ UNCHANGED mainvars

\* line 344: [x.name for x in stack] > [x[0] for x in dirp]
StackBeyond(stk, d) == ListGreater(Names(stk), Names(d))

\* lines 344-345
AscendPop ==
    /\ pc = "ascend"
    /\ StackBeyond(stack, dirp)
    /\ LET r == Pop(stack, store, 0, NoOverride)
       IN /\ stack' = r.stack
          /\ store' = r.store
          /\ saved_errors' = saved_errors + r.errors
          /\ lastpop' = r.log
    /\ UNCHANGED <<scn, smaller, index, files, dirstat, run, pc, pos, cur, dirp,
                   lastskip_name, first_root, root_collision, tree, prevtree, ops, seen>>
    /\ UNCHANGED mainvars

AscendDone ==
    /\ pc = "ascend"
    /\ ~StackBeyond(stack, dirp)
    /\ pc' = "descend"
    /\ UNCHANGED <<scn, smaller, index, files, dirstat, run, pos, cur, dirp, stack,
                   lastskip_name, first_root, root_collision, store, saved_errors, tree,
                   prevtree, lastpop, ops, seen>>
    /\ UNCHANGED mainvars

\* metadata.from_path(fs_path) of a directory.
DirMeta(p) == MetaRec(p, 0, 0)

\* lines 348-358, the stat succeeds or the component has no path
DescendPush ==
    /\ pc = "descend"
    /\ Len(stack) < Len(dirp)
    /\ LET c == dirp[Len(stack) + 1]
       IN /\ c.fs.some => dirstat[c.fs.p] = "ok"
          /\ stack' = Append(stack, Frame(c.name, IF c.fs.some THEN DirMeta(c.fs.p) ELSE EmptyMeta))
    /\ UNCHANGED <<scn, smaller, index, files, dirstat, run, pc, pos, cur, dirp,
                   lastskip_name, first_root, root_collision, store, saved_errors, tree,
                   prevtree, lastpop, ops, seen>>
    /\ UNCHANGED mainvars

\* lines 354-358, the stat fails
DescendPushFailed ==
    /\ pc = "descend"
    /\ Len(stack) < Len(dirp)
    /\ LET c == dirp[Len(stack) + 1]
       IN /\ c.fs.some
          /\ dirstat[c.fs.p] = "fail"
          /\ saved_errors' = saved_errors + 1
          /\ lastskip_name' = c.name
          /\ stack' = Append(stack, Frame(c.name, EmptyMeta))
          /\ seen' = [seen EXCEPT !.dirfails = @ \cup {c.fs.p}]
    /\ UNCHANGED <<scn, smaller, index, files, dirstat, run, pc, pos, cur, dirp,
                   first_root, root_collision, store, tree, prevtree, lastpop, ops>>
    /\ UNCHANGED mainvars

DescendDone ==
    /\ pc = "descend"
    /\ Len(stack) >= Len(dirp)
    /\ pc' = "entry"
    /\ UNCHANGED <<scn, smaller, index, files, dirstat, run, pos, cur, dirp, stack,
                   lastskip_name, first_root, root_collision, store, saved_errors, tree,
                   prevtree, lastpop, ops, seen>>
    /\ UNCHANGED mainvars

----------------------------------------------------------------------------
(* The entry itself, lines 360-447 *)

\* Entry.validate(gitmode, sha) and Entry.invalidate()
Validate(e, gitmode, sha) == [e EXCEPT !.valid = TRUE, !.exists = TRUE, !.gitmode = gitmode, !.sha = sha]

Invalidate(e) == [e EXCEPT !.valid = FALSE]

\* A directory entry that maps to the root closed like any other directory.
DirAtRootPops ==
    /\ pc = "entry"
    /\ ent.isdir
    /\ Len(stack) = 1
    /\ LET r == Pop(stack, store, 0, NoOverride)
       IN /\ stack' = r.stack
          /\ store' = r.store
          /\ saved_errors' = saved_errors + r.errors
          /\ lastpop' = r.log
          /\ index' = [index EXCEPT ![cur] = Validate(@, "TREE", r.tree)]
          /\ ops' = [ops EXCEPT ![cur] = [@ EXCEPT !.disp = "rootdir", !.validates = @ + 1,
                                                  !.repacks = @ + 1]]
    /\ pc' = "iter"
    /\ UNCHANGED <<scn, smaller, files, dirstat, run, pos, cur, dirp, lastskip_name,
                   first_root, root_collision, tree, prevtree, seen>>
    /\ UNCHANGED mainvars

\* lines 360-362: a directory entry that maps to the archive's root
DirAtRoot ==
    /\ pc = "entry"
    /\ ent.isdir
    /\ Len(stack) = 1
    /\ pc' = "iter"
    /\ ops' = [ops EXCEPT ![cur].disp = "rootdir"]
    /\ UNCHANGED <<scn, smaller, index, files, dirstat, run, pos, cur, dirp, stack,
                   lastskip_name, first_root, root_collision, store, saved_errors, tree,
                   prevtree, lastpop, seen>>
    /\ UNCHANGED mainvars

\* The test of line 367 without the prefix: any skip so far counts.
SkippedAny(skip, name) == skip # <<>>

\* line 367: lastskip_name and lastskip_name.startswith(ent.name)
SkippedBelow(skip, name) == skip # <<>> /\ IsPrefix(name, skip)

\* lines 363-374: a directory entry closes its frame
DirClose ==
    /\ pc = "entry"
    /\ ent.isdir
    /\ Len(stack) # 1
    /\ LET oldtree == AlreadySaved(cur)
           r == Pop(stack, store, oldtree, NoOverride)
           de == DirEntry(Last(stack).name, "dir", "TREE", r.tree, NoMeta)
       IN /\ stack' = r.stack
          /\ store' = r.store
          /\ saved_errors' = saved_errors + r.errors
          /\ lastpop' = r.log
          /\ IF oldtree # 0
             THEN /\ UNCHANGED index
                  /\ ops' = [ops EXCEPT ![cur] = [@ EXCEPT !.disp = "forced",
                                                          !.appended = Append(@, de)]]
             ELSE IF SkippedBelow(lastskip_name, EntName(ent))
             THEN /\ index' = [index EXCEPT ![cur] = Invalidate(@)]
                  /\ ops' = [ops EXCEPT ![cur] = [@ EXCEPT !.disp = "rebuilt",
                                                          !.invalidates = @ + 1,
                                                          !.repacks = @ + 1,
                                                          !.appended = Append(@, de)]]
             ELSE /\ index' = [index EXCEPT ![cur] = Validate(@, "TREE", r.tree)]
                  /\ ops' = [ops EXCEPT ![cur] = [@ EXCEPT !.disp = "rebuilt",
                                                          !.validates = @ + 1,
                                                          !.repacks = @ + 1,
                                                          !.appended = Append(@, de)]]
    /\ pc' = "iter"
    /\ UNCHANGED <<scn, smaller, files, dirstat, run, pos, cur, dirp, lastskip_name,
                   first_root, root_collision, tree, prevtree, seen>>
    /\ UNCHANGED mainvars

\* msr.metadata_at(ent.meta_ofs) with the index's times put back: the record of
\* the file as the index saw it.
IndexMeta(i) == MetaRec(Entries[i].path, 0, files[i].n)

\* metadata.from_path(ent.name): the record of the file as it is now.
FreshMeta(i) == MetaRec(Entries[i].path, files[i].ver, files[i].sn)

\* lines 377-382: the entry is reused
FileReuse ==
    /\ pc = "entry"
    /\ ~ent.isdir
    /\ AlreadySaved(cur) # 0
    /\ LET de == DirEntry(SplitFile(ent), index[cur].kind, index[cur].gitmode,
                          index[cur].sha, IndexMeta(cur))
       IN /\ stack' = AppendToTop(stack, de)
          /\ ops' = [ops EXCEPT ![cur] = [@ EXCEPT !.disp = "reused",
                                                  !.appended = Append(@, de)]]
    /\ pc' = "iter"
    /\ UNCHANGED <<scn, smaller, index, files, dirstat, run, pos, cur, dirp,
                   lastskip_name, first_root, root_collision, store, saved_errors, tree,
                   prevtree, lastpop, seen>>
    /\ UNCHANGED mainvars

\* lines 386-393: the stat of the file fails
FileStatFailed ==
    /\ pc = "entry"
    /\ ~ent.isdir
    /\ AlreadySaved(cur) = 0
    /\ ~files[cur].stat
    /\ saved_errors' = saved_errors + 1
    /\ lastskip_name' = EntName(ent)
    /\ ops' = [ops EXCEPT ![cur] = [@ EXCEPT !.disp = "statfail", !.stats = @ + 1]]
    /\ pc' = "iter"
    /\ UNCHANGED <<scn, smaller, index, files, dirstat, run, pos, cur, dirp, stack,
                   first_root, root_collision, store, tree, prevtree, lastpop, seen>>
    /\ UNCHANGED mainvars

\* lines 394-408: the type of the file is not the type the index holds
FileModeChanged ==
    /\ pc = "entry"
    /\ ~ent.isdir
    /\ AlreadySaved(cur) = 0
    /\ files[cur].stat
    /\ index[cur].kind # files[cur].fskind
    /\ saved_errors' = saved_errors + 1
    /\ lastskip_name' = EntName(ent)
    /\ ops' = [ops EXCEPT ![cur] = [@ EXCEPT !.disp = "drift", !.stats = @ + 1]]
    /\ pc' = "iter"
    /\ UNCHANGED <<scn, smaller, index, files, dirstat, run, pos, cur, dirp, stack,
                   first_root, root_collision, store, tree, prevtree, lastpop, seen>>
    /\ UNCHANGED mainvars

\* lines 427-429: open or read fails, nothing is stored
FileReadFailed ==
    /\ pc = "entry"
    /\ ~ent.isdir
    /\ AlreadySaved(cur) = 0
    /\ files[cur].stat
    /\ index[cur].kind = files[cur].fskind
    /\ index[cur].kind = "reg"
    /\ ~files[cur].rd
    /\ saved_errors' = saved_errors + 1
    /\ lastskip_name' = EntName(ent)
    /\ ops' = [ops EXCEPT ![cur] = [@ EXCEPT !.disp = "readfail", !.stats = @ + 1,
                                            !.reads = @ + 1]]
    /\ pc' = "iter"
    /\ UNCHANGED <<scn, smaller, index, files, dirstat, run, pos, cur, dirp, stack,
                   first_root, root_collision, store, tree, prevtree, lastpop, seen>>
    /\ UNCHANGED mainvars

\* The sum of the lengths the new_blob wrapper of lines 418-421 is given.
RECURSIVE SumLen(_)
SumLen(blobs) == IF blobs = <<>> THEN 0 ELSE Len(Head(blobs)) + SumLen(Tail(blobs))

\* Lines 440-443 without the repack.
StoredNoRepack(i, mode, id, meta, blobs, reads) ==
    LET de == DirEntry(SplitFile(Entries[i]), index[i].kind, mode, id, meta)
    IN /\ index' = [index EXCEPT ![i] = Validate(@, mode, id)]
       /\ stack' = AppendToTop(stack, de)
       /\ ops' = [ops EXCEPT ![i] = [@ EXCEPT !.disp = "stored", !.stats = @ + 1,
                                             !.reads = @ + reads, !.blobs = @ + blobs,
                                             !.validates = @ + 1,
                                             !.appended = Append(@, de)]]

\* Lines 440-443 with the append taking the gitmode the entry had before validate.
StoredOldGitmode(i, mode, id, meta, blobs, reads) ==
    LET de == DirEntry(SplitFile(Entries[i]), index[i].kind, index[i].gitmode, id, meta)
    IN /\ index' = [index EXCEPT ![i] = Validate(@, mode, id)]
       /\ stack' = AppendToTop(stack, de)
       /\ ops' = [ops EXCEPT ![i] = [@ EXCEPT !.disp = "stored", !.stats = @ + 1,
                                             !.reads = @ + reads, !.blobs = @ + blobs,
                                             !.validates = @ + 1, !.repacks = @ + 1,
                                             !.appended = Append(@, de)]]

\* lines 440-443 after a store that gave (mode, id): validate, repack, append.
Stored(i, mode, id, meta, blobs, reads) ==
    LET de == DirEntry(SplitFile(Entries[i]), index[i].kind, mode, id, meta)
    IN /\ index' = [index EXCEPT ![i] = Validate(@, mode, id)]
       /\ stack' = AppendToTop(stack, de)
       /\ ops' = [ops EXCEPT ![i] = [@ EXCEPT !.disp = "stored", !.stats = @ + 1,
                                             !.reads = @ + reads, !.blobs = @ + blobs,
                                             !.validates = @ + 1, !.repacks = @ + 1,
                                             !.appended = Append(@, de)]]

\* The metadata as the stat gave it.
KeepStatSize(meta, blobs) == meta

\* lines 418-420: meta.size is the sum of the lengths of the blobs written
ReadSize(meta, blobs) == [meta EXCEPT !.size = SumLen(blobs)]

\* lines 409-426, 440-443: a regular file is read and split
FileStoreRegular ==
    /\ pc = "entry"
    /\ ~ent.isdir
    /\ AlreadySaved(cur) = 0
    /\ files[cur].stat
    /\ index[cur].kind = files[cur].fskind
    /\ index[cur].kind = "reg"
    /\ files[cur].rd
    /\ LET sp == SplitToBlobOrTree(store, Content(ent.path, files[cur].ver, files[cur].n))
           meta == ReadSize(FreshMeta(cur), sp.blobs)
       IN /\ store' = sp.store
          /\ Stored(cur, sp.mode, sp.oid, meta, Len(sp.blobs), 1)
    /\ pc' = "iter"
    /\ UNCHANGED <<scn, smaller, files, dirstat, run, pos, cur, dirp, lastskip_name,
                   first_root, root_collision, saved_errors, tree, prevtree, lastpop, seen>>
    /\ UNCHANGED mainvars

\* lines 432-433, 440-443: a symlink is one blob, its target
FileStoreSymlink ==
    /\ pc = "entry"
    /\ ~ent.isdir
    /\ AlreadySaved(cur) = 0
    /\ files[cur].stat
    /\ index[cur].kind = files[cur].fskind
    /\ index[cur].kind = "lnk"
    /\ LET obj == BlobObject(SymlinkTarget(ent.path, files[cur].ver))
           st == Put(store, obj)
       IN /\ store' = st
          /\ Stored(cur, "SYMLINK", OidOf(st, obj), FreshMeta(cur), 1, 0)
    /\ pc' = "iter"
    /\ UNCHANGED <<scn, smaller, files, dirstat, run, pos, cur, dirp, lastskip_name,
                   first_root, root_collision, saved_errors, tree, prevtree, lastpop, seen>>
    /\ UNCHANGED mainvars

\* lines 434-438, 440-443: anything else is an empty blob
FileStoreOther ==
    /\ pc = "entry"
    /\ ~ent.isdir
    /\ AlreadySaved(cur) = 0
    /\ files[cur].stat
    /\ index[cur].kind = files[cur].fskind
    /\ index[cur].kind \notin {"reg", "lnk"}
    /\ LET obj == BlobObject(<<>>)
           st == Put(store, obj)
       IN /\ store' = st
          /\ Stored(cur, "FILE", OidOf(st, obj), FreshMeta(cur), 1, 0)
    /\ pc' = "iter"
    /\ UNCHANGED <<scn, smaller, files, dirstat, run, pos, cur, dirp, lastskip_name,
                   first_root, root_collision, saved_errors, tree, prevtree, lastpop, seen>>
    /\ UNCHANGED mainvars

----------------------------------------------------------------------------
(* After the loop, lines 455-462 *)

FinishPop ==
    /\ pc = "finish"
    /\ Len(stack) > 1
    /\ LET r == Pop(stack, store, 0, NoOverride)
       IN /\ stack' = r.stack
          /\ store' = r.store
          /\ saved_errors' = saved_errors + r.errors
          /\ lastpop' = r.log
    /\ UNCHANGED <<scn, smaller, index, files, dirstat, run, pc, pos, cur, dirp,
                   lastskip_name, first_root, root_collision, tree, prevtree, ops, seen>>
    /\ UNCHANGED mainvars

\* line 460: metadata.Metadata() if root_collision else None
RootOverride(collision) == IF collision THEN Override(EmptyMeta) ELSE NoOverride

FinishRoot ==
    /\ pc = "finish"
    /\ Len(stack) = 1
    /\ LET r == Pop(stack, store, 0, RootOverride(root_collision))
       IN /\ stack' = r.stack
          /\ store' = r.store
          /\ saved_errors' = saved_errors + r.errors
          /\ lastpop' = r.log
          /\ tree' = r.tree
    /\ pc' = "done"
    /\ UNCHANGED <<scn, smaller, index, files, dirstat, run, pos, cur, dirp,
                   lastskip_name, first_root, root_collision, prevtree, ops, seen>>
    /\ UNCHANGED mainvars

\* No entry pushed a frame: stack.pop() of line 144 raises IndexError.
FinishNoFrame ==
    /\ pc = "finish"
    /\ Len(stack) = 0
    /\ pc' = "raised"
    /\ UNCHANGED <<scn, smaller, index, files, dirstat, run, pos, cur, dirp, stack,
                   lastskip_name, first_root, root_collision, store, saved_errors, tree,
                   prevtree, lastpop, ops, seen>>
    /\ UNCHANGED mainvars

----------------------------------------------------------------------------
(* main, lines 478-538 *)

\* An exception that leaves the blocks and still goes on to the reference.
RaiseThenUpdate(m) ==
    [m EXCEPT !.pc = "update", !.status = 1, !.wopen = FALSE,
              !.raised = IF m.closed THEN "closed" ELSE "open"]

\* An exception or sys.exit inside main: the with blocks are left, which closes
\* the writer, and the process ends with status 1; nothing after the blocks runs.
RaiseIn(m) ==
    [m EXCEPT !.pc = "exited", !.status = 1, !.wopen = FALSE,
              !.raised = IF m.closed THEN "closed" ELSE "open"]

\* lines 484-493: the repository is local, or the client connects
MainConnect(p) ==
    /\ main[p].pc = "start"
    /\ main' = [main EXCEPT ![p].pc = "writer"]
    /\ UNCHANGED <<ref, commits, lastmove>>
    /\ UNCHANGED loopvars

\* lines 489-493: client.ClientError, sys.exit(1)
MainConnectFailed(p) ==
    /\ main[p].pc = "start"
    /\ main[p].cmd.remote
    /\ main' = [main EXCEPT ![p] = RaiseIn(@)]
    /\ UNCHANGED <<ref, commits, lastmove>>
    /\ UNCHANGED loopvars

\* lines 496-501: the pack writer is made and its block entered
MainOpenWriter(p) ==
    /\ main[p].pc = "writer"
    /\ main' = [main EXCEPT ![p] = [@ EXCEPT !.pc = "readref", !.wopen = TRUE]]
    /\ UNCHANGED <<ref, commits, lastmove>>
    /\ UNCHANGED loopvars

\* lines 506-510: parent = repo.read_ref(refname) when a name is given, else None
MainReadRef(p) ==
    /\ main[p].pc = "readref"
    /\ main' = [main EXCEPT ![p] = [@ EXCEPT !.pc = "index",
                                           !.parent = IF main[p].cmd.name THEN ref ELSE NoCommit]]
    /\ UNCHANGED <<ref, commits, lastmove>>
    /\ UNCHANGED loopvars

\* lines 512-514: the metastore of the index opens
MainOpenIndex(p) ==
    /\ main[p].pc = "index"
    /\ main' = [main EXCEPT ![p].pc = "save_tree"]
    /\ UNCHANGED <<ref, commits, lastmove>>
    /\ UNCHANGED loopvars

\* lines 515-520: IOError; sys.exit(1) on EACCES, raised again otherwise
MainIndexFailed(p) ==
    /\ main[p].pc = "index"
    /\ main' = [main EXCEPT ![p] = RaiseIn(@)]
    /\ UNCHANGED <<ref, commits, lastmove>>
    /\ UNCHANGED loopvars

\* line 522: save_tree is called
SaveTreeCall ==
    /\ main[1].pc = "save_tree"
    /\ pc = "idle"
    /\ pc' = "iter"
    /\ main' = [main EXCEPT ![1].pc = "in_save_tree"]
    /\ UNCHANGED <<scn, smaller, index, files, dirstat, run, pos, cur, dirp, stack,
                   lastskip_name, first_root, root_collision, store, saved_errors, tree,
                   prevtree, lastpop, ops, seen>>
    /\ UNCHANGED <<ref, commits, lastmove>>

\* line 522: save_tree returns the root tree; saved_errors holds the errors
SaveTreeReturn ==
    /\ main[1].pc = "in_save_tree"
    /\ pc = "done"
    /\ main' = [main EXCEPT ![1] = [@ EXCEPT !.pc = "saved", !.tree = tree,
                                           !.errors = saved_errors]]
    /\ UNCHANGED <<ref, commits, lastmove>>
    /\ UNCHANGED loopvars

\* line 522: save_tree raises
SaveTreeRaised ==
    /\ main[1].pc = "in_save_tree"
    /\ pc = "raised"
    /\ main' = [main EXCEPT ![1] = RaiseIn(@)]
    /\ UNCHANGED <<ref, commits, lastmove>>
    /\ UNCHANGED loopvars

\* The trees a save can come back with when only its outcome is followed.
SummaryTrees == {1, 2}

\* line 522, by its outcome only: save_tree returns some tree, with or without
\* errors recorded (that it raises is MainInterrupt's case).
SaveTreeSummary(p) ==
    /\ main[p].pc = "save_tree"
    /\ \E t \in SummaryTrees, e \in {0, 1} :
          main' = [main EXCEPT ![p] = [@ EXCEPT !.pc = "saved", !.tree = t, !.errors = e]]
    /\ UNCHANGED <<ref, commits, lastmove>>
    /\ UNCHANGED loopvars

\* commit_tree, lines 465-475: writer.new_commit(tree, parent, ...)
NewCommit(p) == [tree |-> main[p].tree, parent |-> main[p].parent, by |-> p]

\* lines 523-530: the commit is written when -c or -n asks for one
MainCommit(p) ==
    /\ main[p].pc = "saved"
    /\ IF main[p].cmd.commit \/ main[p].cmd.name
       THEN /\ commits' = Append(commits, NewCommit(p))
            /\ main' = [main EXCEPT ![p] = [@ EXCEPT !.pc = "close",
                                                   !.commit = Len(commits) + 1]]
       ELSE /\ main' = [main EXCEPT ![p].pc = "close"]
            /\ UNCHANGED commits
    /\ UNCHANGED <<ref, lastmove>>
    /\ UNCHANGED loopvars

\* The end of the writer's block without the close.
MainLeaveWriterOpen(p) ==
    /\ main[p].pc = "close"
    /\ main' = [main EXCEPT ![p] = [@ EXCEPT !.pc = "update"]]
    /\ UNCHANGED <<ref, commits, lastmove>>
    /\ UNCHANGED loopvars

\* lines 501, 530: the block of the writer ends, which closes it
MainCloseWriter(p) ==
    /\ main[p].pc = "close"
    /\ main' = [main EXCEPT ![p] = [@ EXCEPT !.pc = "update", !.wopen = FALSE,
                                           !.closed = TRUE]]
    /\ UNCHANGED <<ref, commits, lastmove>>
    /\ UNCHANGED loopvars

\* repo.update_ref(refname, newval, oldval): the reference moves to newval if it
\* holds oldval (None: if it does not exist), else the call fails.
UpdateRef(cur_, newval, oldval) ==
    IF cur_ = oldval THEN [ok |-> TRUE, ref |-> newval] ELSE [ok |-> FALSE, ref |-> cur_]

\* The reference's value of now as the old value.
CurrentRef(p) == ref

\* line 534: the old value given to update_ref is parent
ExpectedOld(p) == main[p].parent

\* lines 533-534: no name, no reference to update
MainSkipRef(p) ==
    /\ main[p].pc = "update"
    /\ ~main[p].cmd.name
    /\ main' = [main EXCEPT ![p].pc = "exit"]
    /\ UNCHANGED <<ref, commits, lastmove>>
    /\ UNCHANGED loopvars

\* An update_ref that is left out when errors were recorded.
MainUpdateRefIfClean(p) ==
    /\ main[p].pc = "update"
    /\ main[p].cmd.name
    /\ UpdateRef(ref, main[p].commit, ExpectedOld(p)).ok
    /\ IF main[p].errors = 0
       THEN /\ ref' = UpdateRef(ref, main[p].commit, ExpectedOld(p)).ref
            /\ lastmove' = [by |-> p, from |-> ref, to |-> main[p].commit,
                            expected |-> main[p].parent, wopen |-> main[p].wopen]
            /\ main' = [main EXCEPT ![p] = [@ EXCEPT !.pc = "exit", !.updates = @ + 1]]
       ELSE /\ main' = [main EXCEPT ![p].pc = "exit"]
            /\ UNCHANGED <<ref, lastmove>>
    /\ UNCHANGED commits
    /\ UNCHANGED loopvars

\* lines 533-534: update_ref moves the reference
MainUpdateRef(p) ==
    /\ main[p].pc = "update"
    /\ main[p].cmd.name
    /\ UpdateRef(ref, main[p].commit, ExpectedOld(p)).ok
    /\ ref' = UpdateRef(ref, main[p].commit, ExpectedOld(p)).ref
    /\ lastmove' = [by |-> p, from |-> ref, to |-> main[p].commit,
                    expected |-> main[p].parent, wopen |-> main[p].wopen]
    /\ main' = [main EXCEPT ![p] = [@ EXCEPT !.pc = "exit", !.updates = @ + 1]]
    /\ UNCHANGED commits
    /\ UNCHANGED loopvars

\* lines 533-534: update_ref fails, the reference is not what parent was
MainUpdateRefRejected(p) ==
    /\ main[p].pc = "update"
    /\ main[p].cmd.name
    /\ ~UpdateRef(ref, main[p].commit, ExpectedOld(p)).ok
    /\ main' = [main EXCEPT ![p] = RaiseIn(@)]
    /\ UNCHANGED <<ref, commits, lastmove>>
    /\ UNCHANGED loopvars

\* An exit status that ignores the errors.
ExitZero(errors) == 0

\* lines 536-538: sys.exit(1) if saved_errors, else the status is 0
ExitStatus(errors) == IF errors > 0 THEN 1 ELSE 0

MainExit(p) ==
    /\ main[p].pc = "exit"
    /\ main' = [main EXCEPT ![p] = [@ EXCEPT !.pc = "exited",
                                           !.status = ExitStatus(main[p].errors)]]
    /\ UNCHANGED <<ref, commits, lastmove>>
    /\ UNCHANGED loopvars

\* A KeyboardInterrupt, or any other exception, at some point of main.
MainInterrupt(p) ==
    /\ main[p].pc \in {"start", "writer", "readref", "index", "save_tree", "saved",
                      "close", "update", "exit"}
    /\ main' = [main EXCEPT ![p] = RaiseIn(@)]
    /\ UNCHANGED <<ref, commits, lastmove>>
    /\ UNCHANGED loopvars

\* The next save over the same index, filesystem and repository.
SaveAgain ==
    /\ pc = "done"
    /\ main[1].pc = "exited"
    /\ run < MaxRuns
    /\ run' = run + 1
    /\ prevtree' = tree
    /\ pc' = "idle"
    /\ pos' = 1
    /\ cur' = 0
    /\ dirp' = <<>>
    /\ stack' = <<>>
    /\ lastskip_name' = <<>>
    /\ first_root' = NoRoot
    /\ root_collision' = FALSE
    /\ saved_errors' = 0
    /\ tree' = 0
    /\ lastpop' = NoPop
    /\ ops' = [i \in DOMAIN ops |-> NoOps]
    /\ seen' = [roots |-> {}, dirfails |-> {}]
    /\ main' = [main EXCEPT ![1] = MainStart(@.cmd)]
    /\ UNCHANGED <<scn, smaller, index, files, dirstat, store>>
    /\ UNCHANGED <<ref, commits, lastmove>>

\* One save, followed from the command line to the exit, its loop step by step.
Next ==
    \/ MainConnect(1) \/ MainConnectFailed(1) \/ MainOpenWriter(1) \/ MainReadRef(1)
    \/ MainOpenIndex(1) \/ MainIndexFailed(1)
    \/ SaveTreeCall \/ SaveTreeReturn \/ SaveTreeRaised
    \/ IterNext \/ IterSkip \/ IterEnd
    \/ NotExists \/ SizeFilter \/ MapEntry
    \/ AscendPop \/ AscendDone
    \/ DescendPush \/ DescendPushFailed \/ DescendDone
    \/ DirAtRoot \/ DirClose
    \/ FileReuse \/ FileStatFailed \/ FileModeChanged \/ FileReadFailed
    \/ FileStoreRegular \/ FileStoreSymlink \/ FileStoreOther
    \/ FinishPop \/ FinishRoot \/ FinishNoFrame
    \/ MainCommit(1) \/ MainCloseWriter(1) \/ MainSkipRef(1) \/ MainUpdateRef(1)
    \/ MainExit(1)

Spec == Init /\ [][Next]_vars

SpecTwice == Init /\ [][Next \/ SaveAgain]_vars

\* The command lines of the saves that share a branch.
RaceCmds == {Cmd(TRUE, FALSE, FALSE, FALSE), Cmd(TRUE, TRUE, FALSE, TRUE),
             Cmd(FALSE, FALSE, TRUE, FALSE)}

\* Two saves over one repository, each followed through main with save_tree taken
\* by its outcome; the branch exists, on a first commit, or does not.
InitMain ==
    /\ LoopInit
    /\ scn = 1
    /\ \A i \in 1..NumEntries : Entries[i].isdir => index[i] = DirEntryOf(i, "dnew", FALSE)
    /\ ref \in {NoCommit, 1}
    /\ commits = <<[tree |-> 1, parent |-> NoCommit, by |-> 0]>>
    /\ main \in [Procs -> {MainStart(c) : c \in RaceCmds}]
    /\ lastmove = NoMove

NextMain ==
    \E p \in Procs :
        \/ MainConnect(p) \/ MainConnectFailed(p) \/ MainOpenWriter(p) \/ MainReadRef(p)
        \/ MainOpenIndex(p) \/ MainIndexFailed(p) \/ SaveTreeSummary(p)
        \/ MainCommit(p) \/ MainCloseWriter(p)
        \/ MainSkipRef(p) \/ MainUpdateRef(p) \/ MainUpdateRefRejected(p)
        \/ MainExit(p) \/ MainInterrupt(p)

SpecMain == InitMain /\ [][NextMain]_vars

----------------------------------------------------------------------------
(* Properties *)

FileIdx == {i \in 1..NumEntries : ~Entries[i].isdir}

DirIdx == {i \in 1..NumEntries : Entries[i].isdir}

\* Entry i has been through the loop in this save.
Processed(i) == ops[i].disp # ""

\* Entry i was hashvalid when the reader yielded it (line 281).
HashValidAtTop(i) == ops[i].top.valid /\ WriterExists(ops[i].top.sha)

\* C1: in every tree a pop submits to the writer, under every path mode, no two
\* entries of the submitted list have the same stored name, .bupm included.
ClaimC1_UniqueStoredNames ==
    lastpop.built =>
        \A i, j \in 1..Len(lastpop.shalist) :
            i # j => lastpop.shalist[i].name # lastpop.shalist[j].name

\* A tree was built from a frame that held two items of one name.
WitnessC1 ==
    /\ lastpop.built
    /\ lastpop.errors > 0
    /\ Len(lastpop.shalist) >= 3

\* The bytes an oid of the given mode stands for: a blob's, or those of a tree's blobs.
FlatData(mode, oid) ==
    IF mode = "FILE" THEN store[oid].data
    ELSE Concat([i \in 1..Len(store[oid].ents) |-> store[store[oid].ents[i].oid].data])

\* C2: every tree a pop builds has exactly one entry named .bupm, the first of the
\* list handed to the writer, and its oid is that of the split of the directory's
\* encoded records: the directory's own and those of its items that are no trees.
ClaimC2_SidecarFirst ==
    lastpop.built =>
        /\ lastpop.shalist[1].name = BUPM
        /\ Cardinality({i \in 1..Len(lastpop.shalist) : lastpop.shalist[i].name = BUPM}) = 1
        /\ FlatData(lastpop.shalist[1].mode, lastpop.shalist[1].oid)
             = SidecarBytes(lastpop.metalist)
        /\ Len(lastpop.metalist) = 1 + Len(SelectSeq(lastpop.clean, IsNotTree))
        /\ \A i \in 1..Len(lastpop.clean) :
              lastpop.clean[i].mode # "dir" =>
                  \E k \in 2..Len(lastpop.metalist) : lastpop.metalist[k].meta = lastpop.clean[i].meta

\* A tree was built for a directory that holds a file of its own named .bupm.
WitnessC2 ==
    /\ lastpop.built
    /\ \E i \in 1..Len(lastpop.clean) : lastpop.clean[i].name = BUPM
    /\ lastpop.sidemode = "TREE"

\* The records of the children that are no subdirectories, the children taken
\* in the tree's order of their stored names and storage modes.
MetasInTreeOrder(clean) ==
    LET keyed == [i \in 1..Len(clean) |->
                    [key |-> ShalistSortKey(clean[i].gitmode = "TREE",
                                            MangleName(clean[i].name, clean[i].mode, clean[i].gitmode)),
                     de |-> clean[i]]]
        sorted == SortByKey(keyed)
        kept == SelectSeq(sorted, LAMBDA x : x.de.mode # "dir")
    IN [i \in 1..Len(kept) |-> kept[i].de.meta]

\* C3: in every tree a pop builds, the k-th record after the directory's own is
\* the record of the k-th child that is no subdirectory, in the tree's order.
ClaimC3_SidecarInTreeOrder ==
    lastpop.built =>
        [k \in 1..(Len(lastpop.metalist) - 1) |-> lastpop.metalist[k + 1].meta]
          = MetasInTreeOrder(lastpop.clean)

\* C4: an existing entry that is no directory and is hashvalid when the loop takes
\* it is neither statted nor read, no blob is written for it, every DirEntry appended
\* for it carries the sha the index stored, and the reuse branch appends exactly one.
ClaimC4_ReuseWithoutReading ==
    \A i \in FileIdx :
        (Processed(i) /\ ops[i].top.exists /\ HashValidAtTop(i)) =>
            /\ ops[i].stats = 0
            /\ ops[i].reads = 0
            /\ ops[i].blobs = 0
            /\ ops[i].disp \in {"reused", "sizeskip"}
            /\ \A k \in 1..Len(ops[i].appended) : ops[i].appended[k].oid = ops[i].top.sha
            /\ ops[i].disp = "reused" => Len(ops[i].appended) = 1

\* A hashvalid file was reused and sits in the top frame with the index's sha.
WitnessC4 ==
    \E i \in FileIdx :
        /\ ops[i].disp = "reused"
        /\ HashValidAtTop(i)
        /\ Len(ops[i].appended) = 1
        /\ stack # <<>>
        /\ \E k \in 1..Len(Last(stack).items) : Last(stack).items[k].oid = ops[i].top.sha

\* C5: a second save over the same index, sources and options, with no
\* change of the filesystem between the two, returns the root tree of the first.
ClaimC5_SecondRunSameTree ==
    (pc = "done" /\ run >= 2) => tree = prevtree

\* Entry i exists, the size limit is set and the entry is at least that large.
AtLeastLimit(i) == Processed(i) /\ ops[i].top.exists /\ smaller /\ ops[i].top.big

Skipped(j) ==
    \/ ops[j].disp \in {"statfail", "drift", "readfail"}
    \/ ops[j].disp = "sizeskip" /\ ~HashValidAtTop(j)

\* Something beneath the directory of entry d was skipped in this save.
SkipBeneath(d) ==
    \/ \E j \in 1..NumEntries :
          /\ j # d
          /\ IsPrefix(Entries[d].path, Entries[j].path)
          /\ Skipped(j)
    \/ \E p \in seen.dirfails :
          /\ p # Entries[d].path
          /\ IsPrefix(Entries[d].path, p)

\* C7: a directory whose tree the save rebuilt and beneath which an entry was
\* skipped ends the save invalidated and was never validated.
ClaimC7_SkipInvalidatesAncestors ==
    pc = "done" =>
        \A d \in DirIdx :
            (ops[d].disp = "rebuilt" /\ SkipBeneath(d)) =>
                /\ ~index[d].valid
                /\ ops[d].validates = 0

\* C8: when the ascent and the descent for an entry are over, the names of the
\* frames on the stack are the archive names the path mapping gave the entry's
\* directory, root first.
ClaimC8_StackIsMappedPath ==
    pc = "entry" => Names(stack) = Names(dirp)

\* C9: the root is closed with empty metadata as its own record exactly when two
\* entries that reached the path mapping differ in their first component;
\* otherwise the root's own record is the metadata pushed with the root frame.
ClaimC9_RootCollision ==
    pc = "done" =>
        /\ lastpop.overridden <=> Cardinality(seen.roots) > 1
        /\ lastpop.metalist[1].meta
             = IF Cardinality(seen.roots) > 1 THEN EmptyMeta ELSE lastpop.framemeta

\* Two sources with different roots ended in one root, whose own metadata is dropped.
WitnessC9 ==
    /\ pc = "done"
    /\ Cardinality(seen.roots) > 1
    /\ lastpop.framemeta # EmptyMeta
    /\ lastpop.metalist[1].meta = EmptyMeta

\* C10: within one save an entry is validated or invalidated at most once, each
\* time followed by its repack, and never when it is deleted, left out by the size
\* filter, reused, closed on its stored tree, or failed.
ClaimC10_OneMutationRepacked ==
    \A i \in 1..NumEntries :
        /\ ops[i].validates + ops[i].invalidates <= 1
        /\ ops[i].repacks = ops[i].validates + ops[i].invalidates
        /\ ops[i].disp \in {"deleted", "sizeskip", "reused", "forced", "statfail",
                            "drift", "readfail"}
              => ops[i].validates + ops[i].invalidates = 0

\* A save validated a file it stored and invalidated a directory it rebuilt.
WitnessC10 ==
    /\ \E i \in FileIdx : ops[i].disp = "stored" /\ ops[i].validates = 1 /\ ops[i].repacks = 1
    /\ \E d \in DirIdx : ops[d].disp = "rebuilt" /\ ops[d].invalidates = 1 /\ ops[d].repacks = 1
    /\ \E j \in FileIdx : ops[j].disp \in {"statfail", "drift", "readfail"}

\* C11: every tree the object store holds lists only oids that were in the store
\* when the tree was submitted: objects written before it, or objects of the
\* repository that the writer confirmed for a reused entry or subtree.
ClaimC11_ChildrenBeforeTree ==
    \A o \in 1..Len(store) :
        \A k \in 1..Len(store[o].ents) :
            LET c == store[o].ents[k].oid
            IN \/ c > 0 /\ c < o
               \/ c < 0 /\ index[-c].instore

\* A tree was built over a reused object of the repository and a newly written one.
WitnessC11 ==
    /\ lastpop.built
    /\ \E k \in 2..Len(lastpop.shalist) : lastpop.shalist[k].oid < 0
    /\ \E k \in 2..Len(lastpop.shalist) : lastpop.shalist[k].oid > 0
    /\ store[lastpop.tree].ents # <<>>

\* C12: a run of main moves the branch reference at most once, and only when the
\* block of its pack writer has ended and the writer is closed; the reference
\* never moves while the mover's writer is open.
ClaimC12_RefAfterWriterClosed ==
    /\ \A p \in Procs :
          /\ main[p].updates <= 1
          /\ main[p].updates > 0 => (main[p].cmd.name /\ main[p].closed /\ ~main[p].wopen)
    /\ lastmove.by # 0 => ~lastmove.wopen

\* A named save moved the reference to its commit, its writer closed.
WitnessC12 ==
    \E p \in Procs :
        /\ main[p].cmd.name
        /\ main[p].updates = 1
        /\ main[p].closed
        /\ ref = main[p].commit
        /\ lastmove.by = p

\* C13: a run that an exception, an interrupt or sys.exit ended before the block
\* of its pack writer was over never moved the reference, and the reference is
\* not the commit that run may have written.
ClaimC13_NoRefAfterAbort ==
    \A p \in Procs :
        main[p].raised = "open" =>
            /\ main[p].updates = 0
            /\ lastmove.by # p
            /\ main[p].commit # NoCommit => ref # main[p].commit

\* A named save was interrupted after it wrote its commit, before its writer's
\* block ended.
WitnessC13 ==
    \E p \in Procs :
        /\ main[p].raised = "open"
        /\ main[p].cmd.name
        /\ main[p].commit # NoCommit
        /\ main[p].pc = "exited"

\* C14: every move of the reference is to a commit whose parent is the value the
\* reference held just before the move, and that value is the parent the mover
\* read before its save.
ClaimC14_RefMovesFromParent ==
    lastmove.by # 0 =>
        /\ lastmove.expected = lastmove.from
        /\ commits[lastmove.to].parent = lastmove.from
        /\ commits[lastmove.to].by = lastmove.by

\* One save moved the reference while another, which had read the same parent,
\* was refused.
WitnessC14 ==
    /\ lastmove.by # 0
    /\ ref = lastmove.to
    /\ \E q \in Procs :
          /\ q # lastmove.by
          /\ main[q].cmd.name
          /\ main[q].closed
          /\ main[q].raised = "closed"
          /\ main[q].parent = lastmove.from

\* The entries whose iteration recorded an error and went on to the next entry.
Failed(i) == ops[i].disp \in {"statfail", "drift", "readfail"}

\* C15: an error recorded for an entry never stops the save: after the entry that
\* failed the loop takes the next entry or the end of the stream, and save_tree
\* does not raise once an error is recorded; when save_tree returns the reader is
\* exhausted, every entry it yielded has been through the loop and the root tree
\* is written; and main, if no exception ended it, exits with status 1 exactly
\* when an error was recorded, else with 0.
ClaimC15_ErrorsDoNotStopTheSave ==
    /\ (pc = "iter" /\ cur # 0 /\ Failed(cur)) => ENABLED (IterNext \/ IterSkip \/ IterEnd)
    /\ saved_errors > 0 => pc # "raised"
    /\ pc = "done" =>
          /\ pos = NumEntries + 1
          /\ \A i \in 1..NumEntries : ops[i].top.read => Processed(i)
          /\ tree # 0
          /\ HasObject(store, store[tree])
    /\ (main[1].pc = "exited" /\ main[1].raised = "") =>
          /\ pc = "done"
          /\ main[1].tree = tree
          /\ main[1].status = IF saved_errors > 0 THEN 1 ELSE 0

\* A save in which an entry failed, a later entry was stored, the root tree was
\* returned and main exited with status 1.
WitnessC15 ==
    /\ main[1].pc = "exited"
    /\ main[1].status = 1
    /\ main[1].raised = ""
    /\ tree # 0
    /\ \E i, j \in FileIdx : i < j /\ Failed(i) /\ ops[j].disp = "stored"


\* C16: for every regular file the save stores by reading it, the size in the
\* metadata appended with it is the number of bytes handed to new_blob, the
\* length of what the store holds under the appended oid, whatever size the
\* stat before the read reported.
ClaimC16_SizeIsBytesRead ==
    \A i \in FileIdx :
        (ops[i].disp = "stored" /\ ops[i].reads = 1) =>
            LET de == ops[i].appended[1]
            IN /\ de.meta # NoMeta
               /\ de.meta.size = Len(FlatData(de.gitmode, de.oid))

\* A file was stored whose stat reported another size than was read, in both
\* directions.
WitnessC16 ==
    /\ pc = "done"
    /\ \E i \in FileIdx :
          /\ ops[i].disp = "stored" /\ ops[i].reads = 1
          /\ files[i].sn # ops[i].appended[1].meta.size
          /\ files[i].sn # files[i].n


\* The positions of a frame's items that no earlier item shares its name with.
FirstPositions(items) ==
    {i \in 1..Len(items) : \A j \in 1..(i - 1) : items[j].name # items[i].name}

\* The items at the positions of I, in their order.
ItemsAt(items, I) ==
    [k \in 1..Cardinality(I) |->
        items[CHOOSE i \in I : Cardinality({j \in I : j <= i}) = k]]

\* C17: when a pop builds a tree, the children it keeps are the first item of
\* each name in the order they were added, and the errors the pop records are
\* as many as the items it drops: the items added less the distinct names.
ClaimC17_FirstOfEachNameSurvives ==
    lastpop.built =>
        /\ lastpop.clean = ItemsAt(lastpop.items, FirstPositions(lastpop.items))
        /\ lastpop.errors = Len(lastpop.items)
                             - Cardinality({lastpop.items[i].name : i \in 1..Len(lastpop.items)})
        /\ saved_errors >= lastpop.errors

\* A tree was built from a frame where a later item of another content had the
\* name of an earlier one, and the pop recorded an error.
WitnessC17 ==
    /\ lastpop.built
    /\ lastpop.errors > 0
    /\ \E i, j \in 1..Len(lastpop.items) :
          /\ i < j
          /\ lastpop.items[i].name = lastpop.items[j].name
          /\ lastpop.items[i] # lastpop.items[j]
          /\ Len(lastpop.clean) < Len(lastpop.items)


\* C18: closing a directory entry that is hashvalid and does not map to the
\* root writes nothing to the store, drops the frame with the children it had
\* gathered, appends (name, TREE, TREE, e.sha, no metadata) to the frame below,
\* and neither validates, invalidates nor repacks the entry in the index.
ClaimC18_ForcedCloseWritesNothing ==
    [][(/\ pc = "entry"
        /\ ent.isdir
        /\ Len(stack) # 1
        /\ index[cur].valid
        /\ WriterExists(index[cur].sha))
       => (/\ store' = store
           /\ saved_errors' = saved_errors
           /\ Len(stack') = Len(stack) - 1
           /\ \A k \in 1..(Len(stack) - 2) : stack'[k] = stack[k]
           /\ stack'[Len(stack) - 1] =
                 [stack[Len(stack) - 1] EXCEPT
                    !.items = Append(@, DirEntry(Last(stack).name, "dir", "TREE",
                                                 index[cur].sha, NoMeta))]
           /\ index' = index
           /\ ops'[cur].validates = ops[cur].validates
           /\ ops'[cur].invalidates = ops[cur].invalidates
           /\ ops'[cur].repacks = ops[cur].repacks
           /\ lastskip_name' = lastskip_name)]_vars

\* A hashvalid directory below the root was closed while its frame held children.
WitnessC18 ==
    /\ pc = "iter"
    /\ cur \in DirIdx
    /\ ops[cur].disp = "forced"
    /\ lastpop.calls = 1
    /\ ~lastpop.built
    /\ lastpop.items # <<>>
    /\ lastpop.tree = index[cur].sha
    /\ Len(stack) >= 1


\* An index entry beneath the directory of entry d was skipped in this save.
EntrySkippedBeneath(d) ==
    \E j \in 1..NumEntries :
        /\ j # d
        /\ IsPrefix(Entries[d].path, Entries[j].path)
        /\ Skipped(j)

\* C19: a directory entry below the root that is closed by rebuilding its tree,
\* with no entry beneath it skipped in this save, is validated and not
\* invalidated, with mode TREE and the oid of the tree the pop appended to the
\* frame below, and repacked once; this also when an entry of another directory
\* was skipped before.
ClaimC19_RebuiltDirValidated ==
    \A d \in DirIdx :
        (ops[d].disp = "rebuilt" /\ ~EntrySkippedBeneath(d)) =>
            /\ ops[d].validates = 1
            /\ ops[d].invalidates = 0
            /\ ops[d].repacks = 1
            /\ Len(ops[d].appended) = 1
            /\ ops[d].appended[1].gitmode = "TREE"
            /\ index[d].valid
            /\ index[d].exists
            /\ index[d].gitmode = "TREE"
            /\ index[d].sha = ops[d].appended[1].oid
            /\ index[d].sha \in 1..Len(store)

\* A directory was rebuilt and validated right after the close, the last skip
\* being that of an entry in another directory.
WitnessC19 ==
    /\ pc = "iter"
    /\ cur \in DirIdx
    /\ ops[cur].disp = "rebuilt"
    /\ ops[cur].validates = 1
    /\ index[cur].valid
    /\ \E j \in 1..NumEntries :
          /\ Skipped(j)
          /\ ~IsPrefix(Entries[cur].path, Entries[j].path)
          /\ lastskip_name = EntName(Entries[j])


\* C20: the iteration of an entry without the EXISTS flag, file or directory,
\* ends without a push, pop or append on the stack and leaves the index, the
\* last skipped name, the root-collision state, the store and the errors as
\* they were; only the reader moves on.
ClaimC20_DeletedEntryChangesNothing ==
    [][(pc = "top" /\ ~index[cur].exists)
       => (/\ pc' = "iter"
           /\ UNCHANGED <<stack, index, lastskip_name, first_root, root_collision,
                          store, saved_errors, dirp, lastpop>>)]_vars

\* Deleted entries, a file and a directory, went through the loop while frames
\* were on the stack and a root was already recorded.
WitnessC20 ==
    /\ pc = "iter"
    /\ cur # 0
    /\ ops[cur].disp = "deleted"
    /\ stack # <<>>
    /\ first_root # NoRoot
    /\ \E i \in FileIdx : ops[i].disp = "deleted"
    /\ \E d \in DirIdx : ops[d].disp = "deleted"


\* The stat, the type test and the read of the current entry all succeed, so
\* that its store gives an oid.
StoreGivesOid ==
    /\ files[cur].stat
    /\ index[cur].kind = files[cur].fskind
    /\ index[cur].kind = "reg" => files[cur].rd

\* C21: an existing entry that is no directory and not hashvalid is appended to
\* the top frame exactly when its store gave an oid, and then with the oid and
\* the gitmode the index entry was validated with in the same iteration; when
\* the stat fails, the type differs from the indexed one or the open or read
\* fails, nothing is appended, the index entry stays as it was, one error is
\* recorded and lastskip_name is the entry's path.
ClaimC21_AppendedIffStored ==
    [][(/\ pc = "entry"
        /\ ~ent.isdir
        /\ ~(index[cur].valid /\ WriterExists(index[cur].sha)))
       => IF StoreGivesOid
          THEN /\ Len(stack') = Len(stack)
               /\ \A k \in 1..(Len(stack) - 1) : stack'[k] = stack[k]
               /\ Last(stack').name = Last(stack).name
               /\ Len(Last(stack').items) = Len(Last(stack).items) + 1
               /\ SubSeq(Last(stack').items, 1, Len(Last(stack).items)) = Last(stack).items
               /\ LET de == Last(Last(stack').items)
                  IN /\ de.name = SplitFile(ent)
                     /\ de.oid = index'[cur].sha
                     /\ de.gitmode = index'[cur].gitmode
                     /\ de.oid \in 1..Len(store')
               /\ index'[cur].valid
               /\ ops'[cur].validates = ops[cur].validates + 1
               /\ saved_errors' = saved_errors
               /\ lastskip_name' = lastskip_name
          ELSE /\ stack' = stack
               /\ index' = index
               /\ ops'[cur].validates = ops[cur].validates
               /\ ops'[cur].appended = ops[cur].appended
               /\ saved_errors' = saved_errors + 1
               /\ lastskip_name' = EntName(ent)]_vars

\* One entry was stored under another gitmode than the index held for it, and
\* the entry just processed failed to be stored and is the last skipped name.
WitnessC21 ==
    /\ pc = "iter"
    /\ cur \in FileIdx
    /\ Failed(cur)
    /\ ops[cur].appended = <<>>
    /\ ~index[cur].valid
    /\ lastskip_name = EntName(ent)
    /\ saved_errors >= 1
    /\ \E i \in FileIdx :
          /\ ops[i].disp = "stored"
          /\ ops[i].top.gitmode # ops[i].appended[1].gitmode
          /\ index[i].valid


\* C22: for every index stream the save comes to the end of the stream with the
\* root frame at the bottom of the stack, never raises, and returns with the
\* stack empty the tree of the root, the last frame popped.
ClaimC22_RootAlwaysClosed ==
    /\ pc = "finish" => (stack # <<>> /\ stack[1].name = nRoot)
    /\ pc # "raised"
    /\ pc = "done" =>
          /\ stack = <<>>
          /\ lastpop.name = nRoot
          /\ tree = lastpop.tree
          /\ tree \in 1..Len(store)


\* The stack keeps its root: a stack that holds a frame holds the root frame at
\* the bottom after the step as well, unless the step is the pop of the root at
\* the end of the stream.
RootStays ==
    /\ stack' # <<>> => stack'[1].name = nRoot
    /\ (stack # <<>> /\ stack' # <<>>) => stack'[1].meta = stack[1].meta
    /\ (stack # <<>> /\ stack' = <<>>) =>
          /\ pc = "finish"
          /\ pc' = "done"
          /\ Len(stack) = 1
          /\ lastpop'.name = nRoot

\* A directory entry that maps to the root leaves the stack and the index alone.
RootEntryKept ==
    (pc = "entry" /\ ent.isdir /\ Names(dirp) = <<nRoot>>) =>
        /\ stack' = stack
        /\ index' = index
        /\ lastpop' = lastpop
        /\ ops'[cur].validates = ops[cur].validates
        /\ ops'[cur].invalidates = ops[cur].invalidates
        /\ ops'[cur].repacks = ops[cur].repacks

\* C23: from the first push to the end of the stream the stack is not empty and
\* its bottom frame is the root, named ""; the ascent and a directory entry that
\* maps to the root never pop it, the root is popped once, by the last pop of
\* the save, and a directory entry that maps to the root is neither validated
\* nor invalidated.
ClaimC23_RootFrameStays ==
    /\ []((lastpop.calls > 0 /\ lastpop.name = nRoot) => pc = "done")
    /\ []((pc = "ascend" /\ Len(stack) = 1) => ~ENABLED AscendPop)
    /\ [][RootStays /\ RootEntryKept]_vars

\* The entry of the root directory went through the loop after other frames had
\* been popped, and the root frame, still the only one, holds their trees.
WitnessC23 ==
    /\ pc = "iter"
    /\ cur \in DirIdx
    /\ ops[cur].disp = "rootdir"
    /\ ops[cur].validates = 0
    /\ ~index[cur].valid
    /\ Len(stack) = 1
    /\ stack[1].name = nRoot
    /\ stack[1].items # <<>>
    /\ lastpop.calls > 0


\* Entry j lies directly in the directory of entry d.
DirectlyIn(j, d) ==
    /\ j # d
    /\ Entries[j].path # <<>>
    /\ Front(Entries[j].path) = Entries[d].path

\* The tree t has a child under the name of entry j, mangled or not.
HasChildFor(t, j) ==
    LET nm == Last(Entries[j].path)
    IN \E k \in 1..Len(store[t].ents) :
          store[t].ents[k].name \in {nm, nm \o BUP, nm \o BUPL}

\* C24: a directory entry validated with the tree the save rebuilt for it has in
\* that tree a child for every existing entry directly in the directory that
\* the reader yielded in this save.
ClaimC24_ValidatedTreeComplete ==
    \A d \in DirIdx :
        (ops[d].disp = "rebuilt" /\ ops[d].validates = 1) =>
            /\ index[d].sha \in 1..Len(store)
            /\ \A j \in 1..NumEntries :
                  (DirectlyIn(j, d) /\ ops[j].top.read /\ ops[j].top.exists)
                      => HasChildFor(index[d].sha, j)


\* C25: a save with a branch name that recorded errors still writes the commit
\* of the tree and still moves the reference to it, and its exit status, 1, is
\* set only after that: the commit and the update are enabled whatever the
\* tally, the status is unset until the run is over, and a run that came to its
\* exit holds the reference at its commit.
ClaimC25_ErrorsDoNotHoldTheRef ==
    LET m == main[1]
    IN /\ m.status # -1 => m.pc = "exited"
       /\ (m.pc = "saved" /\ m.cmd.name /\ m.errors > 0) => ENABLED MainCommit(1)
       /\ (m.pc = "update" /\ m.cmd.name /\ m.errors > 0) => ENABLED MainUpdateRef(1)
       /\ (m.pc \in {"exit", "exited"} /\ m.raised = "" /\ m.cmd.name /\ m.errors > 0) =>
             /\ m.commit # NoCommit
             /\ commits[m.commit].tree = m.tree
             /\ m.tree = tree
             /\ m.updates = 1
             /\ ref = m.commit
             /\ lastmove.to = m.commit
       /\ (m.pc = "exited" /\ m.raised = "" /\ m.cmd.name /\ m.errors > 0) => m.status = 1

\* A named save that recorded errors ended with status 1, the reference at its
\* commit.
WitnessC25 ==
    /\ main[1].pc = "exited"
    /\ main[1].raised = ""
    /\ main[1].cmd.name
    /\ main[1].errors > 0
    /\ saved_errors > 0
    /\ main[1].status = 1
    /\ main[1].commit # NoCommit
    /\ ref = main[1].commit
    /\ main[1].updates = 1

====
